---- MODULE Spec2Model ----
(***************************************************************************)
(* Model of the law-dictionary OCR utilities:                              *)
(*   - the text-extraction command (hierarchy-first extract-text.ts):      *)
(*     loadVisionFile, extractText and main;                               *)
(*   - the audit command (validate.ts): auditJsonFile and main;            *)
(*   - the OCR driver (index.ts main) with performOCR, closeVisionClient,  *)
(*     getScanFiles and saveOcrResult.                                     *)
(* JSON values are tagged records; JavaScript strings are sequences of     *)
(* one-character strings, so that join, trim and endsWith are computed.    *)
(* Confidences are fixed-point numbers in ten-thousandths (0.8 is 8000).   *)
(***************************************************************************)
EXTENDS Integers, Sequences, FiniteSets, TLC

VARIABLES
  content,  \* the value a tool saved into the file
  shape,    \* the wrapping the tool saved it in
  json,     \* the parsed file: content wrapped in shape
  pc,       \* position of the text-extraction command
  data,     \* the annotation loadVisionFile returned
  events,   \* loop bodies extractText has still to run
  parts,    \* the parts array of extractText
  text,     \* the string extractText returned
  stdout,   \* what the text-extraction command wrote
  audit,    \* what auditJsonFile did with the file
  textFirst,  \* the string the text-first extractText returned for data
  jsonFiles,  \* audit command: the contents of the .json files of data/output
  auditPc,    \* audit command: position of main
  reports,    \* audit command: what was printed for each file, in order
  scans,      \* OCR driver: the entries of data/scans, in readdir order
  files,      \* OCR driver: the list getScanFiles returned
  driverPc,   \* OCR driver: position of main
  fileIndex,  \* OCR driver: index in files of the file of the loop
  inflight,   \* OCR driver: documentTextDetection requests not yet settled
  clientOpen, \* OCR driver: the vision client exists and is not closed
  outputDir,  \* OCR driver: base name |-> the scan whose result it holds
  log         \* OCR driver: the lines main and performOCR logged

toolVars ==
  <<content, shape, json, pc, data, events, parts, text, stdout, audit,
    textFirst>>
batchVars == <<jsonFiles, auditPc, reports>>
driverVars ==
  <<scans, files, driverPc, fileIndex, inflight, clientOpen, outputDir, log>>
vars == <<toolVars, batchVars, driverVars>>

(***************************************************************************)
(* Bounds of the input space: the blocks of a document, the symbols of a    *)
(* document (over all its blocks), the words of an audited document.       *)
(***************************************************************************)
MaxBlocks == 2
MaxSymbols == 3
MaxWords == 3

(***************************************************************************)
(* JSON / JavaScript values.                                               *)
(***************************************************************************)
Undefined == [k |-> "undefined"]
Null == [k |-> "null"]
Bool(b) == [k |-> "bool", v |-> b]
Num(n) == [k |-> "num", v |-> n]
Str(s) == [k |-> "str", v |-> s]
Arr(s) == [k |-> "arr", v |-> s]
Obj(f) == [k |-> "obj", v |-> f]
EmptyObj == Obj(<<>>)

NL == "\n"
SP == " "
Whitespace == {SP, NL}

\* x == null (also true of undefined): the test behind `??`, `?.` and `!= null`
Nullish(x) == x.k \in {"undefined", "null"}

\* JavaScript truthiness
Truthy(x) ==
  CASE x.k \in {"undefined", "null"} -> FALSE
    [] x.k = "bool" -> x.v
    [] x.k = "num" -> x.v # 0
    [] x.k = "str" -> x.v # <<>>
    [] OTHER -> TRUE

\* typeof x === 'object'
TypeofObject(x) == x.k \in {"obj", "arr", "null"}

\* x.f on a value that is neither null nor undefined
Get(x, f) == IF x.k = "obj" /\ f \in DOMAIN x.v THEN x.v[f] ELSE Undefined

\* x?.f
OptGet(x, f) == IF Nullish(x) THEN Undefined ELSE Get(x, f)

\* a ?? b
Coalesce(a, b) == IF Nullish(a) THEN b ELSE a

\* Array.isArray(x)
IsArray(x) == x.k = "arr"

\* a[i] with a zero-based index, undefined when out of range
Index(a, i) == IF i + 1 \in 1..Len(a.v) THEN a.v[i + 1] ELSE Undefined

\* a ?? [] read as a sequence
ArrOrEmpty(a) == IF Nullish(a) THEN <<>> ELSE a.v

RECURSIVE Concat(_)
Concat(ss) == IF ss = <<>> THEN <<>> ELSE Head(ss) \o Concat(Tail(ss))

(***************************************************************************)
(* String functions.                                                       *)
(***************************************************************************)
\* s.endsWith('\n')
EndsWithNewline(s) == s # <<>> /\ s[Len(s)] = NL

RECURSIVE TrimStart(_)
TrimStart(s) ==
  IF s # <<>> /\ Head(s) \in Whitespace THEN TrimStart(Tail(s)) ELSE s

RECURSIVE TrimEnd(_)
TrimEnd(s) ==
  IF s # <<>> /\ s[Len(s)] \in Whitespace
  THEN TrimEnd(SubSeq(s, 1, Len(s) - 1)) ELSE s

\* String.prototype.trimEnd in the place of trim
TrimTrailing(s) == TrimEnd(s)

\* String.prototype.trim
Trim(s) == TrimStart(TrimEnd(s))

\* parts.join('')
Join(ps) == Concat(ps)

(***************************************************************************)
(* loadVisionFile (hierarchy-first variant): the normalizer.               *)
(***************************************************************************)
\* JSON.parse(raw).responses throws a TypeError when the parsed value is null
loadThrows(j) == Nullish(j)

loadRoot(j) ==
  IF IsArray(Get(j, "responses")) THEN Index(Get(j, "responses"), 0) ELSE j

\* root && typeof root === 'object' && root.fullTextAnnotation
loadAnnotation(root) ==
  IF ~Truthy(root) THEN root
  ELSE IF ~TypeofObject(root) THEN Bool(FALSE)
  ELSE Get(root, "fullTextAnnotation")

\* the normalizer of the text-first variant: no unwrapping of responses
loadVisionFileNoResponses(j) == Coalesce(Get(j, "fullTextAnnotation"), j)

\* the normalizer without its last fallback to the parsed value
loadVisionFileNoJsonFallback(j) ==
  Coalesce(loadAnnotation(loadRoot(j)), loadRoot(j))

loadVisionFile(j) ==
  Coalesce(Coalesce(loadAnnotation(loadRoot(j)), loadRoot(j)), j)

(***************************************************************************)
(* extractText (hierarchy-first variant).                                  *)
(***************************************************************************)
\* !data.pages || data.pages.length === 0
noPages(d) == ~Truthy(Get(d, "pages")) \/ Len(Get(d, "pages").v) = 0

\* a fallback that trims the flat text as the walk's result is trimmed
fallbackTextTrimmed(d) ==
  IF Nullish(Get(d, "text")) THEN Str(<<>>) ELSE Str(Trim(Get(d, "text").v))

\* data.text ?? ''
fallbackText(d) == Coalesce(Get(d, "text"), Str(<<>>))

symbolEvents(word, path) ==
  LET symbols == ArrOrEmpty(Get(word, "symbols")) IN
  [i \in 1..Len(symbols) |->
     [e |-> "symbol", path |-> Append(path, i), symbol |-> symbols[i]]]

wordEvents(paragraph, path) ==
  LET words == ArrOrEmpty(Get(paragraph, "words")) IN
  Concat([i \in 1..Len(words) |-> symbolEvents(words[i], Append(path, i))])

paragraphEvents(block, path) ==
  LET paragraphs == ArrOrEmpty(Get(block, "paragraphs")) IN
  Concat([i \in 1..Len(paragraphs) |->
            wordEvents(paragraphs[i], Append(path, i))])

blockEvents(page, path) ==
  LET blocks == ArrOrEmpty(Get(page, "blocks")) IN
  Concat([i \in 1..Len(blocks) |->
            paragraphEvents(blocks[i], Append(path, i))
              \o <<[e |-> "blockEnd", path |-> Append(path, i)]>>])

\* the loop nest of extractText, unrolled into the sequence of loop bodies
\* it runs: one "symbol" event per symbol, one "blockEnd" per block
walkEvents(d) ==
  LET pages == Get(d, "pages").v IN
  Concat([i \in 1..Len(pages) |-> blockEvents(pages[i], <<i>>)])

\* symbol.property?.detectedBreak?.type
breakTypeOf(symbol) ==
  OptGet(OptGet(Get(symbol, "property"), "detectedBreak"), "type")

\* a mapping that knows SPACE but not SURE_SPACE
breakPushNoSureSpace(breakType) ==
  IF breakType = Str(<<"LINE_BREAK">>) \/ breakType = Str(<<"EOL_SURE_SPACE">>)
  THEN <<<<NL>>>>
  ELSE IF breakType = Str(<<"SPACE">>)
  THEN <<<<SP>>>>
  ELSE <<>>

breakPush(breakType) ==
  IF breakType = Str(<<"LINE_BREAK">>) \/ breakType = Str(<<"EOL_SURE_SPACE">>)
  THEN <<<<NL>>>>
  ELSE IF breakType = Str(<<"SPACE">>) \/ breakType = Str(<<"SURE_SPACE">>)
  THEN <<<<SP>>>>
  ELSE <<>>

\* the body of the innermost loop: the strings it pushes onto parts
symbolPush(symbol) ==
  (IF ~Nullish(Get(symbol, "text")) THEN <<Get(symbol, "text").v>> ELSE <<>>)
    \o breakPush(breakTypeOf(symbol))

\* !parts[parts.length - 1]?.endsWith('\n')
needsBlockNewline(ps) == ps = <<>> \/ ~EndsWithNewline(ps[Len(ps)])

\* a walk without the separation of blocks
blockEndPushNever(ps) == <<>>

blockEndPush(ps) == IF needsBlockNewline(ps) THEN <<<<NL>>>> ELSE <<>>

\* parts.join('').trim()
finishText(ps) == Str(Trim(Join(ps)))

(***************************************************************************)
(* main of the text-extraction command, one step per position.             *)
(***************************************************************************)
\* const data = loadVisionFile(arg)
LoadVisionFile ==
  /\ pc = "start"
  /\ IF loadThrows(json)
     THEN pc' = "threw" /\ data' = data
     ELSE pc' = "loaded" /\ data' = loadVisionFile(json)
  /\ UNCHANGED <<content, shape, json, events, parts, text, stdout, audit>>
  /\ UNCHANGED <<textFirst, batchVars, driverVars>>

\* extractText up to the first loop body: the fallback return, or the
\* start of the walk with an empty parts array
ExtractTextEnter ==
  /\ pc = "loaded"
  /\ IF noPages(data)
     THEN pc' = "extracted" /\ text' = fallbackText(data)
          /\ UNCHANGED <<events, parts>>
     ELSE pc' = "walk" /\ events' = walkEvents(data) /\ parts' = <<>>
          /\ text' = text
  /\ UNCHANGED <<content, shape, json, data, stdout, audit>>
  /\ UNCHANGED <<textFirst, batchVars, driverVars>>

\* one run of the innermost loop body
ExtractTextSymbol ==
  /\ pc = "walk"
  /\ events # <<>>
  /\ Head(events).e = "symbol"
  /\ parts' = parts \o symbolPush(Head(events).symbol)
  /\ events' = Tail(events)
  /\ UNCHANGED <<content, shape, json, pc, data, text, stdout, audit>>
  /\ UNCHANGED <<textFirst, batchVars, driverVars>>

\* the statement that closes the body of the block loop
ExtractTextBlockEnd ==
  /\ pc = "walk"
  /\ events # <<>>
  /\ Head(events).e = "blockEnd"
  /\ parts' = parts \o blockEndPush(parts)
  /\ events' = Tail(events)
  /\ UNCHANGED <<content, shape, json, pc, data, text, stdout, audit>>
  /\ UNCHANGED <<textFirst, batchVars, driverVars>>

\* return parts.join('').trim()
ExtractTextReturn ==
  /\ pc = "walk"
  /\ events = <<>>
  /\ text' = finishText(parts)
  /\ pc' = "extracted"
  /\ UNCHANGED <<content, shape, json, data, events, parts, stdout, audit>>
  /\ UNCHANGED <<textFirst, batchVars, driverVars>>

\* process.stdout.write(text), then a newline when text is not empty
writeOutput(t) == IF Len(t.v) > 0 THEN t.v \o <<NL>> ELSE t.v

WriteStdout ==
  /\ pc = "extracted"
  /\ stdout' = writeOutput(text)
  /\ pc' = "done"
  /\ UNCHANGED <<content, shape, json, data, events, parts, text, audit>>
  /\ UNCHANGED <<textFirst, batchVars, driverVars>>

(***************************************************************************)
(* auditJsonFile of the audit command.  Confidences and the average are    *)
(* in ten-thousandths: 0.8 is 8000, and toFixed(4) rounds to that unit.    *)
(***************************************************************************)
FlagThreshold == 8000
SampleLength == 80

\* JSON.parse(rawData).fullTextAnnotation throws when the value is null
auditParseThrows(j) == Nullish(j)

\* json.fullTextAnnotation ? json.fullTextAnnotation : json
auditData(j) ==
  IF Truthy(Get(j, "fullTextAnnotation")) THEN Get(j, "fullTextAnnotation")
  ELSE j

\* a check for a missing pages field that lets an empty array through
auditNoPagesMissingOnly(d) == ~Truthy(Get(d, "pages"))

\* !data.pages || data.pages.length === 0
auditNoPages(d) == ~Truthy(Get(d, "pages")) \/ Len(Get(d, "pages").v) = 0

\* x.forEach(...) throws a TypeError unless x is an array
forEachThrows(x) == ~IsArray(x)

paragraphThrows(para) == forEachThrows(Get(para, "words"))

blockThrows(block) ==
  \/ forEachThrows(Get(block, "paragraphs"))
  \/ \E i \in 1..Len(Get(block, "paragraphs").v) :
       paragraphThrows(Get(block, "paragraphs").v[i])

pageThrows(page) ==
  \/ forEachThrows(Get(page, "blocks"))
  \/ \E i \in 1..Len(Get(page, "blocks").v) :
       blockThrows(Get(page, "blocks").v[i])

auditWalkThrows(d) ==
  \E i \in 1..Len(Get(d, "pages").v) : pageThrows(Get(d, "pages").v[i])

paragraphWords(para) == Get(para, "words").v

blockWords(block) ==
  LET paragraphs == Get(block, "paragraphs").v IN
  Concat([i \in 1..Len(paragraphs) |-> paragraphWords(paragraphs[i])])

pageWords(page) ==
  LET blocks == Get(page, "blocks").v IN
  Concat([i \in 1..Len(blocks) |-> blockWords(blocks[i])])

\* the words the four nested forEach loops visit, in the order of the visits
auditWords(d) ==
  LET pages == Get(d, "pages").v IN
  Concat([i \in 1..Len(pages) |-> pageWords(pages[i])])

\* word.confidence || 0
wordScore(word) ==
  IF Truthy(Get(word, "confidence")) THEN Get(word, "confidence").v ELSE 0

\* a threshold that also flags a score of exactly 0.8
isFlaggedInclusive(score) == score <= FlagThreshold

isFlagged(score) == score < FlagThreshold

\* the body of the innermost forEach
countWord(acc, word) ==
  [wordCount |-> acc.wordCount + 1,
   cumulativeConfidence |-> acc.cumulativeConfidence + wordScore(word),
   flaggedWordCount |->
     acc.flaggedWordCount + (IF isFlagged(wordScore(word)) THEN 1 ELSE 0)]

RECURSIVE countWords(_, _)
countWords(acc, words) ==
  IF words = <<>> THEN acc
  ELSE countWords(countWord(acc, Head(words)), Tail(words))

NaN == [k |-> "NaN"]

\* (cumulativeConfidence / wordCount).toFixed(4)
averageOf(cumulativeConfidence, wordCount) ==
  IF wordCount = 0 THEN NaN
  ELSE Num((2 * cumulativeConfidence + wordCount) \div (2 * wordCount))

\* data.pages[0].blocks.length throws when there is no first page, or when
\* it has no blocks
blockCountThrows(d) ==
  \/ Nullish(Index(Get(d, "pages"), 0))
  \/ Nullish(Get(Index(Get(d, "pages"), 0), "blocks"))

\* data.pages[0].blocks.length
blockCountOf(d) == Len(Get(Index(Get(d, "pages"), 0), "blocks").v)

RECURSIVE ReplaceNewlines(_)
ReplaceNewlines(s) ==
  IF s = <<>> THEN <<>>
  ELSE <<IF Head(s) = NL THEN SP ELSE Head(s)>> \o ReplaceNewlines(Tail(s))

\* data.text.substring(0, 80).replace(/\n/g, ' ') + '...', when text is truthy
sampleOf(d) ==
  IF Truthy(Get(d, "text"))
  THEN LET t == Get(d, "text").v
           n == IF Len(t) < SampleLength THEN Len(t) ELSE SampleLength
       IN Str(ReplaceNewlines(SubSeq(t, 1, n)) \o <<".", ".", ".">>)
  ELSE Undefined

\* what one call of auditJsonFile does: it throws, prints the CRITICAL line
\* and returns, or prints the audit block
auditJsonFile(j) ==
  IF auditParseThrows(j) THEN [outcome |-> "threw"]
  ELSE LET d == auditData(j) IN
    IF auditNoPages(d) THEN [outcome |-> "critical"]
    ELSE IF auditWalkThrows(d) \/ blockCountThrows(d)
    THEN [outcome |-> "threw"]
    ELSE LET acc == countWords([wordCount |-> 0, cumulativeConfidence |-> 0,
                                flaggedWordCount |-> 0], auditWords(d))
         IN [outcome |-> "report",
             wordCount |-> acc.wordCount,
             cumulativeConfidence |-> acc.cumulativeConfidence,
             averageConfidence |->
               averageOf(acc.cumulativeConfidence, acc.wordCount),
             flaggedWordCount |-> acc.flaggedWordCount,
             blockCount |-> blockCountOf(d),
             sample |-> sampleOf(d)]

NoAudit == [outcome |-> "none"]

AuditJsonFile ==
  /\ audit = NoAudit
  /\ audit' = auditJsonFile(json)
  /\ UNCHANGED <<content, shape, json, pc, data, events, parts, text, stdout>>
  /\ UNCHANGED <<textFirst, batchVars, driverVars>>

(***************************************************************************)
(* Inputs: the parsed content of the file the command is given.            *)
(***************************************************************************)
WithField(o, f, x) == IF x = Undefined THEN o ELSE Obj((f :> x) @@ o.v)

Symbol(t, p) == WithField(WithField(EmptyObj, "text", t), "property", p)

Break(type) == Obj([detectedBreak |-> Obj([type |-> Str(<<type>>)])])

SymbolSet ==
  { Symbol(Str(<<"X">>), Undefined),
    Symbol(Str(<<"Y">>), Break("LINE_BREAK")),
    Symbol(Undefined, Break("EOL_SURE_SPACE")),
    Symbol(Str(<<SP>>), Break("HYPHEN")),
    Symbol(Str(<<>>), Null) }

LayoutSymbolSet ==
  { Symbol(Str(<<"V">>), EmptyObj),
    Symbol(Str(<<"W">>), Break("SURE_SPACE")) }

SeqsUpTo(S, n) == UNION {[1..m -> S] : m \in 0..n}

\* the sequences of at most nb sequences over S that hold at most ns
\* elements in all
RECURSIVE BlockLists(_, _, _)
BlockLists(S, nb, ns) ==
  IF nb = 0 THEN {<<>>}
  ELSE {<<>>} \cup
       UNION { { <<b>> \o rest : rest \in BlockLists(S, nb - 1, ns - Len(b)) } :
               b \in SeqsUpTo(S, ns) }

Word(symbols) == Obj([symbols |-> Arr(symbols)])
Paragraph(words) == Obj([words |-> Arr(words)])
Block(paragraphs) == Obj([paragraphs |-> Arr(paragraphs)])
Page(blocks) == Obj([blocks |-> Arr(blocks)])
Document(t, pages) == WithField(Obj([pages |-> Arr(pages)]), "text", t)

\* the ways a block can hold a sequence of symbols
Layouts == {"oneWord", "wordPerSymbol", "paragraphPerSymbol"}

BlockOf(layout, ss) ==
  CASE layout = "oneWord" -> Block(<<Paragraph(<<Word(ss)>>)>>)
    [] layout = "wordPerSymbol" ->
         Block(<<Paragraph([i \in 1..Len(ss) |-> Word(<<ss[i]>>)])>>)
    [] layout = "paragraphPerSymbol" ->
         Block([i \in 1..Len(ss) |-> Paragraph(<<Word(<<ss[i]>>)>>)])

\* the ways a document can hold a sequence of blocks
Pagings == {"onePage", "pagePerBlock"}

PagesOf(paging, blocks) ==
  IF paging = "onePage" THEN <<Page(blocks)>>
  ELSE [i \in 1..Len(blocks) |-> Page(<<blocks[i]>>)] \o <<EmptyObj>>

\* one page, every block one paragraph of one word: all symbol sequences
HierarchyDocs ==
  { Document(Undefined,
             <<Page([i \in 1..Len(bs) |-> BlockOf("oneWord", bs[i])])>>) :
      bs \in BlockLists(SymbolSet, MaxBlocks, MaxSymbols) }

\* the same over a smaller alphabet, in every layout and paging
LayoutDocs ==
  { Document(Undefined,
             PagesOf(pg, [i \in 1..Len(bs) |-> BlockOf(l, bs[i])])) :
      bs \in BlockLists(LayoutSymbolSet, MaxBlocks, MaxSymbols),
      l \in Layouts, pg \in Pagings }

\* documents with containers whose array field is absent
SparseDocs ==
  { Document(Undefined, <<EmptyObj>>),
    Document(Undefined, <<Page(<<EmptyObj>>)>>),
    Document(Undefined, <<Page(<<Block(<<EmptyObj>>)>>)>>),
    Document(Undefined, <<Page(<<Block(<<Paragraph(<<EmptyObj>>)>>)>>)>>),
    Document(Undefined,
             <<Page(<<EmptyObj,
                      BlockOf("oneWord", <<Symbol(Str(<<"X">>), Undefined)>>)
                    >>)>>) }

cat == <<"c", "a", "t">>
dog == <<"d", "o", "g">>
hello == <<"h", "e", "l", "l", "o">>
aFortiori == <<"A", SP, "f", "o", "r", "t", "i", "o", "r", "i">>

\* the documents of the worked examples
ExampleDocs ==
  { Document(Undefined,
             <<Page(<<Block(<<Paragraph(
                 <<Word(<<Symbol(Str(cat), Break("SPACE"))>>),
                   Word(<<Symbol(Str(dog), Undefined)>>)>>)>>)>>)>>),
    Document(Undefined,
             <<Page(<<BlockOf("oneWord", <<Symbol(Str(<<"X">>), Undefined)>>),
                      BlockOf("oneWord", <<Symbol(Str(cat), EmptyObj)>>)>>)>>),
    Document(Str(<<"X">>),
             <<Page(<<BlockOf("oneWord",
                              <<Symbol(Str(<<"X">>), Undefined),
                                Symbol(Str(<<"Y">>), Undefined)>>)>>)>>) }

TextSet ==
  {Str(<<>>), Str(hello), Str(aFortiori), Str(<<SP, "a", NL>>), Str(<<NL, NL>>)}

\* documents without a hierarchy
NoPageDocs ==
  { WithField(WithField(EmptyObj, "text", t), "pages", p) :
      t \in TextSet \cup {Undefined, Null},
      p \in {Undefined, Null, Arr(<<>>)} }

Annotations == NoPageDocs \cup LayoutDocs \cup SparseDocs \cup ExampleDocs

\* the shapes a provider or a tool wraps an annotation in
Shapes == {"root", "fullTextAnnotation", "responses", "responsesFull"}

Wrap(sh, d) ==
  CASE sh = "root" -> d
    [] sh = "fullTextAnnotation" -> Obj([fullTextAnnotation |-> d])
    [] sh = "responses" -> Obj([responses |-> Arr(<<d>>)])
    [] sh = "responsesFull" ->
         Obj([responses |-> Arr(<<Obj([fullTextAnnotation |-> d])>>)])

\* parsed values that are no annotation
OddValues ==
  { Null, Num(0), Num(5), Str(<<>>), Str(hello), Bool(FALSE), Bool(TRUE),
    Arr(<<>>),
    Obj([responses |-> Arr(<<>>)]),
    Obj([responses |-> Arr(<<>>), text |-> Str(hello)]),
    Obj([responses |-> Arr(<<>>),
         fullTextAnnotation |-> Obj([text |-> Str(hello)])]),
    Obj([responses |-> Arr(<<Bool(TRUE)>>), text |-> Str(hello)]) }

\* <<shape, content>> of the files given to the text-extraction command
ExtractInputs ==
  (Shapes \X (Annotations \cup OddValues)) \cup ({"root"} \X HierarchyDocs)

\* the audit command is not running
BatchIdle == jsonFiles = <<>> /\ auditPc = "idle" /\ reports = <<>>

\* the OCR driver is not running
DriverIdle ==
  /\ scans = <<>> /\ files = <<>> /\ driverPc = "idle" /\ fileIndex = 0
  /\ inflight = 0 /\ clientOpen = FALSE /\ outputDir = <<>> /\ log = <<>>

Init ==
  /\ BatchIdle /\ DriverIdle
  /\ \E inp \in ExtractInputs :
       shape = inp[1] /\ content = inp[2] /\ json = Wrap(inp[1], inp[2])
  /\ pc = "start"
  /\ data = Undefined
  /\ events = <<>>
  /\ parts = <<>>
  /\ text = Undefined
  /\ stdout = <<>>
  /\ audit = NoAudit
  /\ textFirst = Undefined

Next ==
  \/ LoadVisionFile
  \/ ExtractTextEnter
  \/ ExtractTextSymbol
  \/ ExtractTextBlockEnd
  \/ ExtractTextReturn
  \/ WriteStdout

Spec == Init /\ [][Next]_vars

(***************************************************************************)
(* The audit command and the text-extraction command over one output file. *)
(***************************************************************************)
ConfidenceSet == {Undefined, Num(5000), Num(8000), Num(9000), Num(10000)}

AuditWord(c) ==
  WithField(Word(<<Symbol(Str(<<"X">>), Break("SPACE"))>>), "confidence", c)

WordLayouts == {"oneParagraph", "paragraphPerWord", "blockPerWord",
                "pagePerWord"}

AuditPagesOf(layout, ws) ==
  CASE layout = "oneParagraph" -> <<Page(<<Block(<<Paragraph(ws)>>)>>)>>
    [] layout = "paragraphPerWord" ->
         <<Page(<<Block([i \in 1..Len(ws) |-> Paragraph(<<ws[i]>>)])>>)>>
    [] layout = "blockPerWord" ->
         <<Page([i \in 1..Len(ws) |-> Block(<<Paragraph(<<ws[i]>>)>>)])>>
    [] layout = "pagePerWord" ->
         <<Page(<<>>)>> \o
         [i \in 1..Len(ws) |-> Page(<<Block(<<Paragraph(<<ws[i]>>)>>)>>)]

\* the documents of one word also carry the flat text
AuditText(cs) == IF Len(cs) = 1 THEN Str(hello) ELSE Undefined

AuditDocs ==
  { Document(AuditText(cs),
             AuditPagesOf(l, [i \in 1..Len(cs) |-> AuditWord(cs[i])])) :
      cs \in SeqsUpTo(ConfidenceSet, MaxWords), l \in WordLayouts }

\* <<shape, content>> of the files in the output directory
AuditInputs ==
  Shapes \X (AuditDocs \cup NoPageDocs \cup SparseDocs \cup OddValues)

AuditInit ==
  /\ BatchIdle /\ DriverIdle
  /\ \E inp \in AuditInputs :
       shape = inp[1] /\ content = inp[2] /\ json = Wrap(inp[1], inp[2])
  /\ pc = "start"
  /\ data = Undefined
  /\ events = <<>>
  /\ parts = <<>>
  /\ text = Undefined
  /\ stdout = <<>>
  /\ audit = NoAudit
  /\ textFirst = Undefined

AuditNext == Next \/ AuditJsonFile

AuditSpec == AuditInit /\ [][AuditNext]_vars

TypeOK ==
  /\ pc \in {"idle", "start", "threw", "loaded", "walk", "extracted", "done"}
  /\ (pc \in {"extracted", "done"} => text.k = "str")

(***************************************************************************)
(* Vocabulary of the properties.                                           *)
(***************************************************************************)
\* an annotation document: an object with no field but text and pages
IsAnnotation(d) == d.k = "obj" /\ DOMAIN d.v \subseteq {"text", "pages"}

HasField(d, f) == d.k = "obj" /\ f \in DOMAIN d.v

\* pages is absent (or null) or an empty array
PagesAbsentOrEmpty(d) ==
  \/ ~HasField(d, "pages")
  \/ d.v.pages = Null
  \/ d.v.pages = Arr(<<>>)

\* the text of a document, the empty string when it has none
TextOrEmpty(d) ==
  IF HasField(d, "text") /\ d.v.text.k = "str" THEN d.v.text ELSE Str(<<>>)

Extracted == pc \in {"extracted", "done"}

Loaded == pc \in {"loaded", "walk", "extracted", "done"}

HasEmptyResponses(j) == HasField(j, "responses") /\ j.v.responses = Arr(<<>>)

IsPlainObject(x) == x.k = "obj"

\* a number, a string, a boolean or null
IsPrimitive(x) == x.k \in {"num", "str", "bool", "null"}

(***************************************************************************)
(* Normalization.                                                          *)
(***************************************************************************)
\* C1: whichever of the four shapes (root, fullTextAnnotation, responses[0],
\* responses[0].fullTextAnnotation) an annotation is saved in, loadVisionFile
\* returns that annotation.
C1_SameDocumentForEveryShape ==
  (IsAnnotation(content) /\ pc # "start") => (Loaded /\ data = content)

C1_Witness ==
  /\ pc = "loaded"
  /\ shape = "responsesFull"
  /\ IsAnnotation(content)
  /\ ~PagesAbsentOrEmpty(content)
  /\ data = content

\* C2 as stated: a parsed object whose responses array is empty makes the
\* normalization fail, and no document is returned.
C2_EmptyResponsesFail ==
  (HasEmptyResponses(json) /\ pc # "start") => (pc = "threw" /\ data = Undefined)

\* C2 as amended: a parsed object whose responses array is empty does not
\* make the normalization fail; the parsed wrapper object itself is returned
\* as the document.
C2_EmptyResponsesReturnWrapper ==
  (HasEmptyResponses(json) /\ pc # "start") => (Loaded /\ data = json)

C2_Witness ==
  /\ pc = "loaded"
  /\ HasEmptyResponses(json)
  /\ HasField(json, "fullTextAnnotation")
  /\ data = json

\* C3: a parsed value that is no object, or a responses[0] that is no object,
\* makes the normalization fail, and extractText is only ever handed an
\* object.
C3_NonObjectRejected ==
  /\ (pc # "start" /\ IsPrimitive(json)) => pc = "threw"
  /\ (pc # "start" /\ shape \in {"responses", "responsesFull"}
        /\ IsPrimitive(json.v.responses.v[1])) => pc = "threw"
  /\ Loaded => ~IsPrimitive(data)

(***************************************************************************)
(* Text extraction.                                                        *)
(***************************************************************************)
\* C4: for a document whose pages is absent or empty, extractText returns
\* the text field as it is (the empty string when there is none) and never
\* starts the walk.
C4_FallbackReturnsTextUnchanged ==
  (Extracted /\ IsPlainObject(data) /\ PagesAbsentOrEmpty(data)) =>
    (text = TextOrEmpty(data) /\ parts = <<>> /\ events = <<>>)

C4_Witness ==
  /\ pc = "extracted"
  /\ data = Obj([text |-> Str(hello)])
  /\ text = Str(hello)

\* the elements of the array field f of o, none when the field is no array
Children(o, f) ==
  IF HasField(o, f) /\ o.v[f].k = "arr" THEN o.v[f].v ELSE <<>>

\* the index paths <<page, block, paragraph, word, symbol>> of the symbols
SymbolPaths(d) ==
  UNION { LET page == Children(d, "pages")[p] IN
    UNION { LET block == Children(page, "blocks")[b] IN
      UNION { LET para == Children(block, "paragraphs")[g] IN
        UNION { LET word == Children(para, "words")[w] IN
                  { <<p, b, g, w, s>> :
                      s \in 1..Len(Children(word, "symbols")) }
                : w \in 1..Len(Children(para, "words")) }
              : g \in 1..Len(Children(block, "paragraphs")) }
            : b \in 1..Len(Children(page, "blocks")) }
          : p \in 1..Len(Children(d, "pages")) }

BlockPaths(d) ==
  UNION { { <<p, b>> : b \in 1..Len(Children(Children(d, "pages")[p],
                                             "blocks")) }
          : p \in 1..Len(Children(d, "pages")) }

BlockAt(d, path) ==
  Children(Children(d, "pages")[path[1]], "blocks")[path[2]]

SymbolAt(d, path) ==
  LET para == Children(BlockAt(d, path), "paragraphs")[path[3]]
      word == Children(para, "words")[path[4]]
  IN Children(word, "symbols")[path[5]]

\* document order of two different paths of one length
Before(a, b) ==
  \E i \in 1..Len(a) : a[i] < b[i] /\ \A j \in 1..(i - 1) : a[j] = b[j]

RECURSIVE InDocumentOrder(_)
InDocumentOrder(S) ==
  IF S = {} THEN <<>>
  ELSE LET first == CHOOSE a \in S : \A b \in S \ {a} : Before(a, b)
       IN <<first>> \o InDocumentOrder(S \ {first})

\* the name of the break that follows a symbol, "NONE" when there is none
BreakName(symbol) ==
  IF /\ HasField(symbol, "property")
     /\ HasField(symbol.v.property, "detectedBreak")
     /\ HasField(symbol.v.property.v.detectedBreak, "type")
  THEN symbol.v.property.v.detectedBreak.v.type.v[1]
  ELSE "NONE"

WhitespaceAfter(break) ==
  CASE break \in {"LINE_BREAK", "EOL_SURE_SPACE"} -> <<NL>>
    [] break \in {"SPACE", "SURE_SPACE"} -> <<SP>>
    [] OTHER -> <<>>

SymbolText(symbol) ==
  IF HasField(symbol, "text") /\ symbol.v.text.k = "str"
  THEN symbol.v.text.v ELSE <<>>

Walked == Loaded /\ IsPlainObject(data) /\ ~PagesAbsentOrEmpty(data)

AtSymbol == pc = "walk" /\ events # <<>> /\ Head(events).e = "symbol"

AtBlockEnd == pc = "walk" /\ events # <<>> /\ Head(events).e = "blockEnd"

CatDogDoc ==
  Document(Undefined,
           <<Page(<<Block(<<Paragraph(
               <<Word(<<Symbol(Str(cat), Break("SPACE"))>>),
                 Word(<<Symbol(Str(dog), Undefined)>>)>>)>>)>>)>>)

C5_Step ==
  /\ (pc = "loaded" /\ pc' = "walk") =>
       LET se == SelectSeq(events', LAMBDA ev : ev.e = "symbol") IN
         /\ [i \in 1..Len(se) |-> se[i].path]
              = InDocumentOrder(SymbolPaths(data))
         /\ \A i \in 1..Len(se) : se[i].symbol = SymbolAt(data, se[i].path)
  /\ AtSymbol =>
       LET symbol == SymbolAt(data, Head(events).path) IN
         /\ Join(parts') = Join(parts) \o SymbolText(symbol)
                             \o WhitespaceAfter(BreakName(symbol))
         /\ events' = Tail(events)
  /\ AtBlockEnd => events' = Tail(events)
  /\ (pc' = "extracted" /\ data' = CatDogDoc) =>
       text' = Str(cat \o <<SP>> \o dog)

\* C5: the walk visits every symbol once, in document order, and each visit
\* appends the symbol's text and then a newline for LINE_BREAK and
\* EOL_SURE_SPACE, one space for SPACE and SURE_SPACE, nothing otherwise;
\* "cat" + SPACE followed by "dog" is extracted as "cat dog".
C5_SymbolsInOrderWithBreaks == [][C5_Step]_vars

C5_Witness ==
  /\ pc = "walk"
  /\ data = CatDogDoc
  /\ Join(parts) = cat \o <<SP>>
  /\ AtSymbol
  /\ SymbolText(Head(events).symbol) = dog

EndsInNewline(s) == Len(s) > 0 /\ s[Len(s)] = NL

C6_Step ==
  AtBlockEnd =>
    Join(parts') = IF EndsInNewline(Join(parts)) THEN Join(parts)
                   ELSE Join(parts) \o <<NL>>

\* C6: when a block is finished, a newline is appended exactly when the
\* output emitted so far does not end in a newline.
C6_BlockNewlineOnlyWhenMissing == [][C6_Step]_vars

AllWhitespace(s, from, to) == \A i \in from..to : s[i] \in Whitespace

\* r is s without the whitespace at its very end
IsTrimmedAtEnd(r, s) ==
  \E n \in 0..Len(s) :
    /\ r = SubSeq(s, 1, n)
    /\ AllWhitespace(s, n + 1, Len(s))
    /\ (n = 0 \/ s[n] \notin Whitespace)

\* r is s without the whitespace at its very start and at its very end
IsTrimmedAtBothEnds(r, s) ==
  \E m \in 1..(Len(s) + 1) : \E n \in (m - 1)..Len(s) :
    /\ r = SubSeq(s, m, n)
    /\ AllWhitespace(s, 1, m - 1)
    /\ AllWhitespace(s, n + 1, Len(s))
    /\ (n < m \/ (s[m] \notin Whitespace /\ s[n] \notin Whitespace))

\* C7 as stated: the result of the walk is everything emitted, with
\* whitespace removed from the very end only.
C7_TrimmedAtEndOnly ==
  (Extracted /\ Walked) => IsTrimmedAtEnd(text.v, Join(parts))

\* C7 as amended: the result of the walk is everything emitted, with
\* whitespace removed from the very start and from the very end; interior
\* whitespace is kept as emitted.
C7_TrimmedAtBothEnds ==
  (Extracted /\ Walked) => IsTrimmedAtBothEnds(text.v, Join(parts))

C7_Witness ==
  /\ pc = "extracted"
  /\ Walked
  /\ Len(Join(parts)) > 0
  /\ Join(parts)[1] = NL
  /\ \E i \in 1..Len(text.v) : text.v[i] \in Whitespace
  /\ text.v[1] \notin Whitespace

\* every block holds one paragraph of one word of one symbol, whose text is
\* not empty, has no whitespace, and is followed by no break
OneSymbolBlocks(d) ==
  /\ BlockPaths(d) # {}
  /\ \A bp \in BlockPaths(d) :
       LET paragraphs == Children(BlockAt(d, bp), "paragraphs") IN
         /\ Len(paragraphs) = 1
         /\ Len(Children(paragraphs[1], "words")) = 1
         /\ Len(Children(Children(paragraphs[1], "words")[1], "symbols")) = 1
  /\ \A sp \in SymbolPaths(d) :
       /\ SymbolText(SymbolAt(d, sp)) # <<>>
       /\ \A i \in 1..Len(SymbolText(SymbolAt(d, sp))) :
            SymbolText(SymbolAt(d, sp))[i] \notin Whitespace
       /\ BreakName(SymbolAt(d, sp)) = "NONE"

RECURSIVE JoinedByNewline(_)
JoinedByNewline(lines) ==
  IF Len(lines) = 1 THEN lines[1]
  ELSE lines[1] \o <<NL>> \o JoinedByNewline(Tail(lines))

SymbolTexts(d) ==
  LET paths == InDocumentOrder(SymbolPaths(d)) IN
  [i \in 1..Len(paths) |-> SymbolText(SymbolAt(d, paths[i]))]

\* C8: for one or more blocks of one word of one non-whitespace symbol with
\* no break, extractText returns the symbol texts joined by single newlines,
\* with no newline at the end.
C8_OneSymbolBlocksJoinedByNewline ==
  (Extracted /\ Walked /\ OneSymbolBlocks(data)) =>
    text.v = JoinedByNewline(SymbolTexts(data))

C8_Witness ==
  /\ pc = "extracted"
  /\ Walked
  /\ OneSymbolBlocks(data)
  /\ Cardinality(BlockPaths(data)) = 2
  /\ text = Str(<<"X", NL, "X">>)

(***************************************************************************)
(* Statistics.                                                             *)
(***************************************************************************)
\* the file holds the annotation in a shape auditJsonFile unwraps
AuditSees == shape \in {"root", "fullTextAnnotation"} /\ IsAnnotation(content)

Audited == audit # NoAudit

\* C9: for a document whose pages is absent or empty, auditJsonFile reports
\* the missing structure and no statistic at all, whatever text holds, while
\* extractText returns the text of the same document.
C9_NoPagesNoStatistics ==
  (AuditSees /\ PagesAbsentOrEmpty(content)) =>
    /\ Audited => audit = [outcome |-> "critical"]
    /\ Extracted => text = TextOrEmpty(content)

C9_Witness ==
  /\ audit = [outcome |-> "critical"]
  /\ pc = "extracted"
  /\ content = Obj([text |-> Str(aFortiori)])
  /\ text = Str(aFortiori)

\* the index paths <<page, block, paragraph, word>> of the words
WordPaths(d) ==
  UNION { LET page == Children(d, "pages")[p] IN
    UNION { LET block == Children(page, "blocks")[b] IN
      UNION { LET para == Children(block, "paragraphs")[g] IN
                { <<p, b, g, w>> : w \in 1..Len(Children(para, "words")) }
              : g \in 1..Len(Children(block, "paragraphs")) }
            : b \in 1..Len(Children(page, "blocks")) }
          : p \in 1..Len(Children(d, "pages")) }

WordAt(d, path) ==
  Children(Children(BlockAt(d, path), "paragraphs")[path[3]], "words")[path[4]]

\* the confidence of a word, 0 when it has none
Confidence(word) ==
  IF HasField(word, "confidence") /\ word.v.confidence.k = "num"
  THEN word.v.confidence.v ELSE 0

RECURSIVE ConfidenceSum(_, _)
ConfidenceSum(d, S) ==
  IF S = {} THEN 0
  ELSE LET a == CHOOSE x \in S : TRUE
       IN Confidence(WordAt(d, a)) + ConfidenceSum(d, S \ {a})

Confidences(d) ==
  LET paths == InDocumentOrder(WordPaths(d)) IN
  [i \in 1..Len(paths) |-> Confidence(WordAt(d, paths[i]))]

HasArray(o, f) == HasField(o, f) /\ o.v[f].k = "arr"

\* every page has blocks, every block paragraphs, every paragraph words
CompleteHierarchy(d) ==
  \A p \in 1..Len(Children(d, "pages")) :
    LET page == Children(d, "pages")[p] IN
    /\ HasArray(page, "blocks")
    /\ \A b \in 1..Len(Children(page, "blocks")) :
         LET block == Children(page, "blocks")[b] IN
         /\ HasArray(block, "paragraphs")
         /\ \A g \in 1..Len(Children(block, "paragraphs")) :
              HasArray(Children(block, "paragraphs")[g], "words")

\* a is m / n rounded to the nearest unit
IsRounded(a, m, n) == 2 * a * n - 2 * m <= n /\ 2 * m - 2 * a * n <= n

\* C10: for a document with at least one word, every word is counted once:
\* wordCount is the number of words, the sum adds each confidence with a
\* missing one as 0, the average divides the sum by the number of words, and
\* flaggedWordCount counts the words strictly below 0.8; confidences
\* 1.0, 0.5, 0.9 give 3 words, an average of 0.8 and 1 flagged word.
C10_EveryWordCountedOnce ==
  (AuditSees /\ CompleteHierarchy(content) /\ WordPaths(content) # {}
     /\ Audited) =>
    /\ audit.outcome = "report"
    /\ audit.wordCount = Cardinality(WordPaths(content))
    /\ audit.cumulativeConfidence = ConfidenceSum(content, WordPaths(content))
    /\ audit.flaggedWordCount =
         Cardinality({w \in WordPaths(content) :
                        Confidence(WordAt(content, w)) < 8000})
    /\ audit.averageConfidence.k = "num"
    /\ IsRounded(audit.averageConfidence.v, audit.cumulativeConfidence,
                 audit.wordCount)
    /\ Confidences(content) = <<10000, 5000, 9000>> =>
         /\ audit.wordCount = 3
         /\ audit.averageConfidence = Num(8000)
         /\ audit.flaggedWordCount = 1

C10_Witness ==
  /\ Audited
  /\ AuditSees
  /\ Confidences(content) = <<10000, 5000, 9000>>
  /\ audit.outcome = "report"
  /\ audit.wordCount = 3
  /\ audit.averageConfidence = Num(8000)
  /\ audit.flaggedWordCount = 1

\* the words of the first page
FirstPageWordPaths(d) == {w \in WordPaths(d) : w[1] = 1}

\* C11: blockCount is the number of blocks of the first page, and the other
\* statistics are not summed over the pages either: they count the words of
\* the first page.
C11_FirstPageOnly ==
  (AuditSees /\ CompleteHierarchy(content) /\ Audited
     /\ audit.outcome = "report") =>
    /\ audit.blockCount = Len(Children(Children(content, "pages")[1], "blocks"))
    /\ audit.wordCount = Cardinality(FirstPageWordPaths(content))
    /\ audit.cumulativeConfidence
         = ConfidenceSum(content, FirstPageWordPaths(content))
    /\ audit.flaggedWordCount =
         Cardinality({w \in FirstPageWordPaths(content) :
                        Confidence(WordAt(content, w)) < 8000})

\* C12: for a document with pages and no word the audit signals a failure
\* and reports no average; a reported average is never NaN.
C12_ZeroWordsSignalled ==
  /\ (AuditSees /\ CompleteHierarchy(content) /\ ~PagesAbsentOrEmpty(content)
        /\ WordPaths(content) = {} /\ Audited) => audit.outcome = "threw"
  /\ (Audited /\ audit.outcome = "report") => audit.averageConfidence # NaN

\* C13: the result of the audit carries a field passed, which is true exactly
\* when the average confidence is above 0.90.
C13_PassedAboveNinety ==
  (Audited /\ audit.outcome = "report" /\ audit.averageConfidence # NaN) =>
    /\ "passed" \in DOMAIN audit
    /\ audit.passed = (audit.averageConfidence.v > 9000)

\* C14: the audit sees the annotation of a file whatever shape it is saved
\* in: an annotation with pages saved under responses[0] is not reported as
\* lacking its pages, and is audited as the annotation saved at the root is.
C14_AuditUnwrapsResponses ==
  (IsAnnotation(content) /\ ~PagesAbsentOrEmpty(content) /\ Audited) =>
    /\ audit.outcome # "critical"
    /\ audit = auditJsonFile(content)

(***************************************************************************)
(* The audit command (validate.ts main): every .json file of data/output   *)
(* is handed to auditJsonFile by jsonFiles.forEach.                        *)
(***************************************************************************)
\* the files of one audit run
MaxFiles == 3

\* the content of a file JSON.parse rejects
Unparsable == [k |-> "unparsable"]

\* auditJsonFile from the file on: JSON.parse throws on what is not JSON
auditFile(f) ==
  IF f = Unparsable THEN [outcome |-> "threw"] ELSE auditJsonFile(f)

\* main up to the forEach: the directory and the list are looked at
auditMainStart(dirExists, fs) ==
  IF ~dirExists THEN "noDirectory"
  ELSE IF Len(fs) = 0 THEN "empty"
  ELSE "forEach"

\* what an exception auditJsonFile throws does to the forEach: nothing
\* catches it, it leaves forEach and main
forEachAfterThrow == "crashed"

AuditMain ==
  /\ auditPc = "main"
  /\ \E dirExists \in {TRUE} \cup (IF jsonFiles = <<>> THEN {FALSE} ELSE {}) :
       auditPc' = auditMainStart(dirExists, jsonFiles)
  /\ UNCHANGED <<jsonFiles, reports, toolVars, driverVars>>

\* one call of auditJsonFile by forEach
AuditForEach ==
  /\ auditPc = "forEach"
  /\ Len(reports) < Len(jsonFiles)
  /\ LET r == auditFile(jsonFiles[Len(reports) + 1])
     IN  IF r.outcome = "threw"
         THEN /\ auditPc' = forEachAfterThrow
              /\ reports' = Append(reports, r)
         ELSE /\ auditPc' = auditPc
              /\ reports' = Append(reports, r)
  /\ UNCHANGED <<jsonFiles, toolVars, driverVars>>

\* forEach is through the list and main returns
AuditMainReturn ==
  /\ auditPc = "forEach"
  /\ Len(reports) = Len(jsonFiles)
  /\ auditPc' = "returned"
  /\ UNCHANGED <<jsonFiles, reports, toolVars, driverVars>>

\* what the audited files hold: a complete document, a document without
\* pages, a file that is not JSON, and hierarchies with a missing array
BatchFiles ==
  { Document(Undefined, AuditPagesOf("oneParagraph", <<AuditWord(Num(9000))>>)),
    Document(Str(hello), <<>>),
    Unparsable,
    Document(Undefined, <<EmptyObj>>),
    Document(Undefined, <<Page(<<EmptyObj>>)>>),
    Document(Undefined, <<Page(<<Block(<<EmptyObj>>)>>)>>) }

ToolIdle ==
  /\ content = Undefined /\ shape = "root" /\ json = Undefined
  /\ pc = "idle" /\ data = Undefined /\ events = <<>> /\ parts = <<>>
  /\ text = Undefined /\ stdout = <<>> /\ audit = NoAudit
  /\ textFirst = Undefined

BatchInit ==
  /\ ToolIdle /\ DriverIdle
  /\ jsonFiles \in SeqsUpTo(BatchFiles, MaxFiles)
  /\ auditPc = "main"
  /\ reports = <<>>

BatchNext == AuditMain \/ AuditForEach \/ AuditMainReturn

BatchSpec == BatchInit /\ [][BatchNext]_vars

\* C15: a file that fails in parsing, normalizing or walking does not abort
\* the audit of the batch: main never ends by the failure of a file, and
\* when it has returned every file of the list has its report.
C15_FailureDoesNotAbortBatch ==
  /\ auditPc # "crashed"
  /\ (auditPc = "returned" => Len(reports) = Len(jsonFiles))

(***************************************************************************)
(* The OCR driver (index.ts main), the vision driver (performOCR,          *)
(* closeVisionClient) and the file utilities (getScanFiles, saveOcrResult).*)
(* A file name is a record of its base name and its extension.             *)
(***************************************************************************)
File(n, e) == [name |-> n, ext |-> e]

\* String.prototype.toLowerCase on the extensions of the model
toLowerCase(e) == IF e = ".JPG" THEN ".jpg" ELSE e

validExtensions == {".jpg", ".jpeg", ".png", ".tiff"}

isScanFile(f) == toLowerCase(f.ext) \in validExtensions

\* readdirSync(SCANS_DIR).filter(...), and [] when readdirSync throws
getScanFiles(readable, dir) ==
  IF readable THEN SelectSeq(dir, isScanFile) ELSE <<>>

\* path.parse(filename).name: the name of the output file, less ".json"
outputName(f) == f.name

\* writeFileSync creates the file or replaces what it holds
saveOcrResult(dir, f) ==
  [b \in DOMAIN dir \cup {outputName(f)} |->
     IF b = outputName(f) THEN f ELSE dir[b]]

\* what documentTextDetection gives: a result with an annotation, a result
\* without one, or a rejection
Annotated == Obj([fullTextAnnotation |-> Obj([text |-> Str(hello)])])
NoText == Obj([fullTextAnnotation |-> Null])
Rejected == [k |-> "rejected"]
Responses == {Annotated, NoText, Rejected}

Returned(x) == [k |-> "returned", v |-> x]
Threw(m) == [k |-> "threw", msg |-> m]

\* performOCR after the request: the annotation, or the error it re-throws
performOCR(res) ==
  IF res = Rejected THEN Threw("transport")
  ELSE IF ~Truthy(Get(res, "fullTextAnnotation")) THEN Threw("empty")
  ELSE Returned(Get(res, "fullTextAnnotation"))

Line(e, i, m) == [ev |-> e, file |-> i, msg |-> m]

\* where main is while performOCR is pending
performOCRNotAwaited == "loop"
awaitPerformOCR == "awaiting"

\* where main is after the catch of the loop body
catchRethrows == "rejected"
afterCatch == "loop"

\* main up to the loop
DriverMainStart ==
  /\ driverPc = "main"
  /\ \E dirsOk \in BOOLEAN, readable \in BOOLEAN :
       IF ~dirsOk
       THEN /\ driverPc' = "rejected"
            /\ UNCHANGED <<files, fileIndex, log>>
       ELSE /\ files' = getScanFiles(readable, scans)
            /\ IF Len(files') = 0
               THEN /\ log' = Append(log, Line("noFiles", 0, ""))
                    /\ driverPc' = "resolved"
                    /\ UNCHANGED fileIndex
               ELSE /\ fileIndex' = 1
                    /\ driverPc' = "loop"
                    /\ UNCHANGED log
  /\ UNCHANGED <<scans, inflight, clientOpen, outputDir, toolVars, batchVars>>

\* the loop body up to the await: performOCR reads the scan and sends the
\* request, or fails in reading it
DriverProcessFile ==
  /\ driverPc = "loop"
  /\ fileIndex <= Len(files)
  /\ \E readOk \in BOOLEAN :
       IF readOk
       THEN /\ log' = Append(log, Line("processing", fileIndex, ""))
            /\ inflight' = inflight + 1
            /\ driverPc' = awaitPerformOCR
            /\ UNCHANGED fileIndex
       ELSE /\ log' = log \o <<Line("processing", fileIndex, ""),
                               Line("apiFailure", fileIndex, "read"),
                               Line("error", fileIndex, "read")>>
            /\ fileIndex' = fileIndex + 1
            /\ driverPc' = afterCatch
            /\ UNCHANGED inflight
  /\ UNCHANGED <<scans, files, clientOpen, outputDir, toolVars, batchVars>>

\* the request settles: the rest of performOCR and of the loop body
DriverOcrSettled ==
  /\ driverPc = "awaiting"
  /\ inflight > 0
  /\ inflight' = inflight - 1
  /\ fileIndex' = fileIndex + 1
  /\ \E res \in Responses, writeOk \in BOOLEAN :
       LET ocrData == performOCR(res)
       IN  IF ocrData.k = "threw"
           THEN /\ log' = log \o <<Line("apiFailure", fileIndex, ocrData.msg),
                                   Line("error", fileIndex, ocrData.msg)>>
                /\ driverPc' = afterCatch
                /\ UNCHANGED outputDir
           ELSE IF ~Truthy(ocrData.v)
           THEN /\ log' = Append(log, Line("skipping", fileIndex, ""))
                /\ driverPc' = "loop"
                /\ UNCHANGED outputDir
           ELSE IF writeOk
           THEN /\ outputDir' = saveOcrResult(outputDir, files[fileIndex])
                /\ log' = Append(log, Line("saved", fileIndex, ""))
                /\ driverPc' = "loop"
           ELSE /\ log' = Append(log, Line("error", fileIndex, "write"))
                /\ driverPc' = afterCatch
                /\ UNCHANGED outputDir
  /\ UNCHANGED <<scans, files, clientOpen, toolVars, batchVars>>

\* the loop is through the list: closeVisionClient is called
DriverCloseClient ==
  /\ driverPc = "loop"
  /\ fileIndex > Len(files)
  /\ driverPc' = "closing"
  /\ UNCHANGED <<scans, files, fileIndex, inflight, clientOpen, outputDir,
                 log, toolVars, batchVars>>

\* visionClient.close() settles and main resolves
DriverClientClosed ==
  /\ driverPc = "closing"
  /\ clientOpen' = FALSE
  /\ log' = Append(log, Line("complete", 0, ""))
  /\ driverPc' = "resolved"
  /\ UNCHANGED <<scans, files, fileIndex, inflight, outputDir,
                 toolVars, batchVars>>

\* the handlers of the promise of main: process.exit(0) or process.exit(1)
DriverExit ==
  /\ driverPc \in {"resolved", "rejected"}
  /\ IF driverPc = "resolved"
     THEN /\ log' = Append(log, Line("finalizing", 0, ""))
          /\ driverPc' = "exit0"
     ELSE /\ log' = Append(log, Line("fatal", 0, ""))
          /\ driverPc' = "exit1"
  /\ UNCHANGED <<scans, files, fileIndex, inflight, clientOpen, outputDir,
                 toolVars, batchVars>>

\* the entries data/scans can hold
ScanEntries ==
  {File("05", ".jpg"), File("05", ".png"), File("06", ".JPG"),
   File("notes", ".txt")}

\* a directory holds no name twice
Directories ==
  {d \in SeqsUpTo(ScanEntries, MaxFiles) :
     \A i, j \in 1..Len(d) : i # j => d[i] # d[j]}

\* the module of the vision driver is loaded: the client exists
DriverInit ==
  /\ ToolIdle /\ BatchIdle
  /\ scans \in Directories
  /\ files = <<>>
  /\ driverPc = "main"
  /\ fileIndex = 0
  /\ inflight = 0
  /\ clientOpen = TRUE
  /\ outputDir = <<>>
  /\ log = <<>>

DriverNext ==
  \/ DriverMainStart
  \/ DriverProcessFile
  \/ DriverOcrSettled
  \/ DriverCloseClient
  \/ DriverClientClosed
  \/ DriverExit

DriverSpec == DriverInit /\ [][DriverNext]_vars

\* the event loop runs a continuation that is ready, and a request settles
DriverFairSpec == DriverSpec /\ WF_vars(DriverNext)

\* the lines of the log that open the attempt of a file
IsProcessing(l) == l.ev = "processing"
Attempts == SelectSeq(log, IsProcessing)

\* the line is the report of a failure
IsFailure(l) == l.ev \in {"apiFailure", "error"}

\* the loop of main is through the list
LoopEnded == fileIndex > Len(files)

\* the file was saved, skipped or reported as failed
Settled(i) ==
  \E j \in 1..Len(log) :
    log[j].file = i /\ log[j].ev \in {"saved", "skipping", "error"}

\* the attempt the line j of the log belongs to
AttemptOf(j) ==
  LET before == {i \in 1..j : IsProcessing(log[i])}
  IN  IF before = {} THEN 0
      ELSE log[CHOOSE i \in before : \A m \in before : m <= i].file

C16_InListOrder ==
  /\ \A k \in 1..Len(Attempts) : Attempts[k].file = k
  /\ Len(Attempts) <= Len(files)
  /\ (LoopEnded \/ driverPc \in {"exit0", "exit1"}) =>
        (files # <<>> => Len(Attempts) = Len(files))
  /\ \A j \in 1..Len(log) : IsFailure(log[j]) => log[j].file = AttemptOf(j)
  /\ \A i \in 1..Len(files) : i < fileIndex => Settled(i)

\* C16: every file of the list getScanFiles returned is attempted exactly
\* once and in the order of the list, whatever failed for the files before
\* it; a failure is reported for the file it belongs to; and the loop, once
\* entered, reaches the end of the list.
C16_EveryFileAttemptedOnce ==
  /\ []C16_InListOrder
  /\ (driverPc = "loop") ~> LoopEnded

\* the first file failed, the second was saved, and the run is over
C16_Witness ==
  /\ driverPc = "exit0"
  /\ Len(files) >= 2
  /\ \E j \in 1..Len(log) : log[j].ev = "error" /\ log[j].file = 1
  /\ \E j \in 1..Len(log) : log[j].ev = "saved" /\ log[j].file = 2

\* what the text-extraction command wrote ends in one newline, not in two
EndsInOneNewline(out) ==
  /\ Len(out) > 0
  /\ out[Len(out)] = NL
  /\ (Len(out) > 1 => out[Len(out) - 1] # NL)

\* C17: the text-extraction command writes the extracted text and ends it
\* with exactly one newline when the text is not empty, also when the text
\* comes from the fallback and ends in newlines itself; it writes nothing
\* when the text is empty.
C17_OneTrailingNewline ==
  pc = "done" =>
    IF text.v = <<>> THEN stdout = <<>> ELSE EndsInOneNewline(stdout)

\* OCR succeeded for every scan file and every result was saved
EveryFileSaved ==
  /\ LoopEnded
  /\ files # <<>>
  /\ \A i \in 1..Len(files) :
       \E j \in 1..Len(log) : log[j].ev = "saved" /\ log[j].file = i

\* C18: after a batch in which OCR succeeded for every scan file the output
\* directory holds one JSON file for each input file, under the base name of
\* the input, and no result has been overwritten by another.
C18_OneJsonPerInput ==
  EveryFileSaved =>
    /\ Cardinality(DOMAIN outputDir) = Len(files)
    /\ \A i \in 1..Len(files) :
         /\ files[i].name \in DOMAIN outputDir
         /\ outputDir[files[i].name] = files[i]

\* C19: on every way out of main the client has been closed before the run
\* ends, and no request is made or pending once it is closed.
C19_ClientClosedOnEveryExit ==
  /\ driverPc \in {"exit0", "exit1"} => ~clientOpen
  /\ ~clientOpen => (inflight = 0 /\ driverPc \in {"resolved", "exit0"})

\* C20: at most one performOCR request is in flight, and while the request
\* of a file is in flight every file before it has been saved or reported.
C20_OneRequestInFlight ==
  /\ inflight <= 1
  /\ inflight = 1 =>
       /\ driverPc = "awaiting"
       /\ \A i \in 1..Len(files) : i < fileIndex => Settled(i)
       /\ ~Settled(fileIndex)

\* the request of the second file is in flight
C20_Witness == inflight = 1 /\ fileIndex = 2

\* the provider answered the request of file i without an annotation
EmptyAnnotation(i) ==
  \E j \in 1..Len(log) : log[j].file = i /\ log[j].msg = "empty"

\* C21: a response without an annotation is not reported as a failed
\* request is: no "API Request Failure" line and no per-file error line is
\* logged for it; and nothing is saved for its file.
C21_EmptyAnnotationDistinct ==
  /\ \A j \in 1..Len(log) :
       log[j].msg = "empty" => ~IsFailure(log[j])
  /\ \A i \in 1..Len(files) :
       EmptyAnnotation(i) =>
         ~\E j \in 1..Len(log) : log[j].file = i /\ log[j].ev = "saved"

(***************************************************************************)
(* extractText of the text-first variant (src/utils/extract-text.ts),      *)
(* applied to the annotation the command holds.                            *)
(***************************************************************************)
\* a preference for the flat text that yields to a hierarchy
prefersTextWithoutPages(d) ==
  LET t == Get(d, "text") IN
  Truthy(t) /\ t.k \in {"str", "arr"} /\ Len(t.v) > 0 /\ noPages(d)

\* data.text && data.text.length > 0
prefersText(d) ==
  LET t == Get(d, "text") IN
  Truthy(t) /\ t.k \in {"str", "arr"} /\ Len(t.v) > 0

\* a flat text returned trimmed
preferredTextTrimmed(d) == Str(Trim(Get(d, "text").v))

\* return data.text
preferredText(d) == Get(d, "text")

\* the parts array after the loop nest: no newline is pushed between blocks
RECURSIVE textFirstParts(_)
textFirstParts(evs) ==
  IF evs = <<>> THEN <<>>
  ELSE (IF Head(evs).e = "symbol" THEN symbolPush(Head(evs).symbol) ELSE <<>>)
         \o textFirstParts(Tail(evs))

\* s.replace(/\n+$/, '')
RECURSIVE stripTrailingNewlines(_)
stripTrailingNewlines(s) ==
  IF s # <<>> /\ s[Len(s)] = NL
  THEN stripTrailingNewlines(SubSeq(s, 1, Len(s) - 1)) ELSE s

extractTextTextFirst(d) ==
  IF prefersText(d) THEN preferredText(d)
  ELSE IF noPages(d) THEN Str(<<>>)
  ELSE Str(stripTrailingNewlines(Join(textFirstParts(walkEvents(d)))))

\* the text-first extractText is run on the annotation the hierarchy-first
\* extractText has returned from
ExtractTextTextFirst ==
  /\ pc = "extracted"
  /\ textFirst = Undefined
  /\ textFirst' = extractTextTextFirst(data)
  /\ UNCHANGED <<content, shape, json, pc, data, events, parts, text, stdout,
                 audit, batchVars, driverVars>>

\* the loop nest of the hierarchy-first extractText as one function of the
\* loop bodies it runs
RECURSIVE walkParts(_, _)
walkParts(evs, ps) ==
  IF evs = <<>> THEN ps
  ELSE walkParts(Tail(evs),
                 ps \o (IF Head(evs).e = "symbol"
                        THEN symbolPush(Head(evs).symbol)
                        ELSE blockEndPush(ps)))

\* annotations that hold a flat text and a hierarchy
BothDocs ==
  { WithField(d, "text", t) : d \in ExampleDocs \cup SparseDocs, t \in TextSet }

ForkInputs == ExtractInputs \cup ({"root", "fullTextAnnotation"} \X BothDocs)

ForkInit ==
  /\ BatchIdle /\ DriverIdle
  /\ \E inp \in ForkInputs :
       shape = inp[1] /\ content = inp[2] /\ json = Wrap(inp[1], inp[2])
  /\ pc = "start"
  /\ data = Undefined
  /\ events = <<>>
  /\ parts = <<>>
  /\ text = Undefined
  /\ stdout = <<>>
  /\ audit = NoAudit
  /\ textFirst = Undefined

ForkNext == Next \/ ExtractTextTextFirst

ForkSpec == ForkInit /\ [][ForkNext]_vars

\* the text-first extractText has returned
TextFirstExtracted == textFirst # Undefined

\* the annotation holds a flat text that is not empty
HasText(d) == HasField(d, "text") /\ d.v.text.k = "str" /\ d.v.text.v # <<>>

\* the annotation less its flat text
PagesOnly(d) == Obj([pages |-> d.v.pages])

\* C22: the text-first extractText returns the flat text unchanged whenever
\* it is present and not empty, whatever pages holds; the hierarchy-first
\* extractText returns the text of the walk, which the flat text has no part
\* in, whenever pages is not empty, and the flat text only when pages is
\* absent or empty.
C22_TwoPolicies ==
  /\ (TextFirstExtracted /\ IsPlainObject(data) /\ HasText(data)) =>
        textFirst = data.v.text
  /\ (Extracted /\ Walked) =>
        /\ text = finishText(parts)
        /\ text = finishText(walkParts(walkEvents(PagesOnly(data)), <<>>))
  /\ (Extracted /\ IsPlainObject(data) /\ PagesAbsentOrEmpty(data)) =>
        text = TextOrEmpty(data)

\* an annotation with a flat text and a hierarchy, on which the two differ
C22_Witness ==
  /\ Extracted /\ TextFirstExtracted /\ Walked
  /\ HasText(data)
  /\ textFirst = data.v.text
  /\ text # textFirst

\* C23: for an annotation whose pages is absent or empty, whether its flat
\* text is present, empty or absent, the text-first and the hierarchy-first
\* extractText return the same string.
C23_VariantsAgreeWithoutPages ==
  (Extracted /\ TextFirstExtracted /\ PagesAbsentOrEmpty(data)) =>
    (textFirst = text /\ text.k = "str")

\* a flat text with whitespace at both ends, and no pages
C23_Witness ==
  /\ Extracted /\ TextFirstExtracted
  /\ IsPlainObject(data) /\ PagesAbsentOrEmpty(data)
  /\ text = Str(<<SP, "a", NL>>)
  /\ textFirst = text

====
